---- MODULE Spec2Model ----
(***************************************************************************)
(* Model of scripts/download-python.js: one run of the script is the       *)
(* pipeline  lookup -> skip-if-present -> mkdir -> download (following     *)
(* redirects) -> extract (tar.gz | zip) -> unlink.  The filesystem         *)
(* survives a run; everything else (promises, counters, stdout, stderr,    *)
(* exit code) belongs to one process and is reset by NewRun.               *)
(***************************************************************************)
EXTENDS Naturals, Sequences, FiniteSets

VARIABLES
    key,          \* targetPlatform: process.argv[2] || getPlatformKey()
    run,          \* number of the current process run (1..MaxRuns)
    pc,           \* position of the run
    exitCode,     \* Running, or the code the process ended with
    dirs,         \* filesystem: the directories that exist (paths)
    files,        \* filesystem: the regular files that exist (paths)
    content,      \* filesystem: content of the archive file, "none" when absent
    installed,    \* filesystem: what lies inside pythonDir
    calls,        \* the stack of pending download() promises, outermost first
    requests,     \* the URLs given to https.get in this run, in order
    received,     \* number of responses received in this run
    redirects,    \* number of 301/302 responses among them
    response,     \* the most recent response received in this run
    totalBytes,   \* download(): parseInt(content-length)
    downloadedBytes, \* download(): running sum of chunk lengths
    stdout,       \* lines written to standard output in this run
    stderr,       \* lines written to standard error in this run
    fsLog,        \* filesystem operations that this run performed
    atStart,      \* the filesystem as this run found it
    extractor,    \* which extract function this run called ("none" at first)
    extractOk,    \* this run's extract function returned without error
    everExtractOk,\* some run so far had its extract function return normally
    failedExtract,\* some run so far had its extract function throw
    skipped       \* this run returned through the "already exists" branch

vars == <<key, run, pc, exitCode, dirs, files, content, installed, calls,
          requests, received, redirects, response, totalBytes, downloadedBytes,
          stdout, stderr, fsLog, atStart, extractor, extractOk, everExtractOk,
          failedExtract, skipped>>

fsVars == <<dirs, files, content, installed>>
netVars == <<calls, requests, received, redirects, response, totalBytes,
            downloadedBytes>>
extVars == <<extractor, extractOk, everExtractOk, failedExtract>>

----------------------------------------------------------------------------
(* Bounds of the model *)

MaxRuns == 2        \* process runs in a row against the same directory
MaxRedirects == 2   \* 301/302 answers the server gives within one run
MaxBytes == 2       \* largest body size (and largest Content-Length)

----------------------------------------------------------------------------
(* Static data *)

\* A URL or a path is the sequence of its '/'-separated parts.
\* `https://github.com/indygreg/python-build-standalone/releases/download/
\*  ${RELEASE_TAG}/cpython-${PYTHON_VERSION}-<triple>-install_only.tar.gz`
StandaloneUrl(file) ==
    <<"github.com", "indygreg", "python-build-standalone", "releases",
      "download", "20240726", file>>

OfficialUrl ==
    <<"www.python.org", "ftp", "python", "3.11.9",
      "python-3.11.9-embed-arm64.zip">>

\* Object.keys(PLATFORMS), in insertion order
PlatformKeys ==
    <<"darwin-arm64", "darwin-x64", "linux-x64", "linux-arm64", "win32-x64",
      "win32-arm64">>

OwnKeys == {PlatformKeys[i] : i \in 1..Len(PlatformKeys)}

\* faulty variant: the zip entry carries a type the dispatch does not know
PLATFORMS_BadType ==
    [k \in OwnKeys |->
        IF k = "win32-arm64"
        THEN [url |-> OfficialUrl, type |-> "embed.zip"]
        ELSE [url |-> StandaloneUrl(k), type |-> "tar.gz"]]

PLATFORMS ==
    [k \in OwnKeys |->
        CASE k = "darwin-arm64" ->
               [url |-> StandaloneUrl("cpython-3.11.9+20240726-aarch64-apple-darwin-install_only.tar.gz"),
                type |-> "tar.gz"]
          [] k = "darwin-x64" ->
               [url |-> StandaloneUrl("cpython-3.11.9+20240726-x86_64-apple-darwin-install_only.tar.gz"),
                type |-> "tar.gz"]
          [] k = "linux-x64" ->
               [url |-> StandaloneUrl("cpython-3.11.9+20240726-x86_64-unknown-linux-gnu-install_only.tar.gz"),
                type |-> "tar.gz"]
          [] k = "linux-arm64" ->
               [url |-> StandaloneUrl("cpython-3.11.9+20240726-aarch64-unknown-linux-gnu-install_only.tar.gz"),
                type |-> "tar.gz"]
          [] k = "win32-x64" ->
               [url |-> StandaloneUrl("cpython-3.11.9+20240726-x86_64-pc-windows-msvc-shared-install_only.tar.gz"),
                type |-> "tar.gz"]
          [] k = "win32-arm64" ->
               [url |-> OfficialUrl, type |-> "zip"]]

\* Names that every object literal inherits from Object.prototype: the
\* property read PLATFORMS[name] finds them although the table has no such
\* entry.  Two representatives.
InheritedKeys == {"constructor", "toString"}

\* Keys with no property at all, own or inherited.
UnknownKeys == {"plan9-x64"}

\* The values process.argv[2] || getPlatformKey() ranges over.
TargetPlatforms == OwnKeys \cup InheritedKeys \cup UnknownKeys

\* const platformConfig = PLATFORMS[platformKey]; const {url, type} = platformConfig
\*   truthy : the value passes `if (!platformConfig)`
\*   isEntry: url and type are defined (the value is a table entry)
PlatformConfig(platformKey) ==
    IF platformKey \in OwnKeys
    THEN [truthy |-> TRUE, isEntry |-> TRUE,
          url |-> PLATFORMS[platformKey].url, type |-> PLATFORMS[platformKey].type]
    ELSE IF platformKey \in InheritedKeys
    THEN [truthy |-> TRUE, isEntry |-> FALSE, url |-> <<>>, type |-> "undefined"]
    ELSE [truthy |-> FALSE, isEntry |-> FALSE, url |-> <<>>, type |-> "undefined"]

\* path.basename(url): the part after the last '/'
basename(url) == url[Len(url)]

\* path.join(__dirname, '..', 'resources', 'python', platformKey), from the
\* repository root
resourcesDir(platformKey) == <<"resources", "python", platformKey>>
archivePath(platformKey) ==
    Append(resourcesDir(platformKey), basename(PlatformConfig(platformKey).url))
pythonDir(platformKey) == Append(resourcesDir(platformKey), "python")

\* mkdir(p, {recursive: true}) creates p and every missing ancestor
Ancestors(p) == {SubSeq(p, 1, n) : n \in 1..Len(p)}

\* fs.existsSync(p)
existsSync(p) == p \in dirs \/ p \in files

----------------------------------------------------------------------------
(* Values *)

Running == "running"

NoError == [kind |-> "none", code |-> 0]
\* faulty variant: the message leaves the status code out
StatusError_NoCode(statusCode) == [kind |-> "Download failed with status", code |-> 0]
\* new Error(`Download failed with status ${response.statusCode}`)
StatusError(statusCode) == [kind |-> "Download failed with status", code |-> statusCode]
\* new Error(`Unsupported archive type: ${type}`)
ArchiveTypeError == [kind |-> "Unsupported archive type", code |-> 0]
\* TypeError thrown by path.basename(undefined)
PathTypeError == [kind |-> "ERR_INVALID_ARG_TYPE", code |-> 0]
\* errors raised by the network, the filesystem and the extraction libraries
RequestFailure == [kind |-> "request error", code |-> 0]
StreamFailure == [kind |-> "stream error", code |-> 0]
MkdirFailure == [kind |-> "mkdir error", code |-> 0]
ExtractFailure == [kind |-> "extract error", code |-> 0]
UnlinkFailure == [kind |-> "unlink error", code |-> 0]

Line(tag) == [tag |-> tag, keys |-> <<>>, err |-> NoError, nan |-> FALSE, tenths |-> 0]

\* Status codes a server answers with; 301 and 302 are the ones followed.
RedirectStatuses == {301, 302}
Statuses == {200, 301, 302, 404, 500}

\* Values of the Location header of a redirect
Locations == {<<"objects.githubusercontent.com", "asset">>,
              <<"mirror.example.org", "asset">>}

\* The Content-Length header: absent, or a decimal number
NoHeader == [present |-> FALSE, value |-> 0]
ContentLengths == {NoHeader} \cup {[present |-> TRUE, value |-> n] : n \in 0..MaxBytes}

\* parseInt(response.headers['content-length'], 10): NaN for undefined
parseInt(header) ==
    IF header.present THEN [nan |-> FALSE, value |-> header.value]
    ELSE [nan |-> TRUE, value |-> 0]

\* ((downloadedBytes / totalBytes) * 100).toFixed(1), in tenths of a percent;
\* NaN when totalBytes is NaN.  totalBytes.value > 0 whenever a chunk arrived.
percent(downloaded, total) ==
    IF total.nan THEN [nan |-> TRUE, tenths |-> 0]
    ELSE [nan |-> FALSE,
          tenths |-> (2 * 1000 * downloaded + total.value) \div (2 * total.value)]

----------------------------------------------------------------------------
(* The initial state: an empty filesystem, a fresh process *)

NoResponse == [statusCode |-> 0, location |-> <<>>, contentLength |-> NoHeader]

\* what the run finds on disk
Snapshot(d, f, c, i) == [dirs |-> d, files |-> f, content |-> c, installed |-> i]

NaN == [nan |-> TRUE, value |-> 0]

FreshProcess ==
    /\ pc = "main"
    /\ exitCode = Running
    /\ calls = <<>>
    /\ requests = <<>>
    /\ received = 0
    /\ redirects = 0
    /\ response = NoResponse
    /\ totalBytes = NaN
    /\ downloadedBytes = 0
    /\ stdout = <<>>
    /\ stderr = <<>>
    /\ fsLog = <<>>
    /\ extractor = "none"
    /\ extractOk = FALSE
    /\ skipped = FALSE

Init ==
    /\ key \in TargetPlatforms
    /\ run = 1
    /\ dirs = {}
    /\ files = {}
    /\ content = "none"
    /\ installed = "none"
    /\ everExtractOk = FALSE
    /\ failedExtract = FALSE
    /\ atStart = Snapshot({}, {}, "none", "none")
    /\ FreshProcess

----------------------------------------------------------------------------
(* How a run ends *)

\* process.exit(code), or the event loop running dry (code 0)
Exit(code) ==
    /\ pc' = "exited"
    /\ exitCode' = code

\* faulty variant: the catch logs but leaves the exit code at 0
SetupFailed_ExitZero(error) ==
    /\ stderr' = Append(stderr, [Line("Setup failed") EXCEPT !.err = error])
    /\ Exit(0)

\* .catch((error) => { console.error('Setup failed:', error.message); process.exit(1) })
SetupFailed(error) ==
    /\ stderr' = Append(stderr, [Line("Setup failed") EXCEPT !.err = error])
    /\ Exit(1)

----------------------------------------------------------------------------
(* downloadAndSetup, up to its first await *)

\* faulty variant: the cache check looks at the archive, not at pythonDir
AlreadyInstalled_ChecksArchive(platformKey) == existsSync(archivePath(platformKey))

\* if (fs.existsSync(pythonDir))
AlreadyInstalled(platformKey) == existsSync(pythonDir(platformKey))

Main ==
    /\ pc = "main"
    /\ LET platformConfig == PlatformConfig(key) IN
       IF ~platformConfig.truthy
       THEN \* unsupported platform: two lines on stderr, process.exit(1)
            /\ stderr' = stderr \o
                  << [Line("Unsupported platform") EXCEPT !.keys = <<key>>],
                     [Line("Supported platforms") EXCEPT !.keys = PlatformKeys] >>
            /\ Exit(1)
            /\ UNCHANGED <<stdout, skipped>>
       ELSE IF ~platformConfig.isEntry
       THEN \* url is undefined: path.basename(url) throws, the promise rejects
            /\ SetupFailed(PathTypeError)
            /\ UNCHANGED <<stdout, skipped>>
       ELSE IF AlreadyInstalled(key)
       THEN \* return: the promise resolves and the process ends
            /\ stdout' = Append(stdout, Line("Python already exists"))
            /\ skipped' = TRUE
            /\ Exit(0)
            /\ UNCHANGED stderr
       ELSE \* await fs.promises.mkdir(resourcesDir, { recursive: true })
            /\ stdout' = Append(stdout, Line("Downloading Python for"))
            /\ pc' = "mkdirResources"
            /\ UNCHANGED <<exitCode, stderr, skipped>>
    /\ UNCHANGED <<key, run, fsVars, netVars, fsLog, atStart, extVars>>

\* the mkdir of resourcesDir settles; on success download(url, archivePath)
\* is called and issues its https.get
MkdirResources ==
    /\ pc = "mkdirResources"
    /\ \E ok \in BOOLEAN :
         IF ok
         THEN /\ dirs' = dirs \cup Ancestors(resourcesDir(key))
              /\ fsLog' = Append(fsLog, "mkdir resourcesDir")
              /\ calls' = << [url |-> PlatformConfig(key).url, dest |-> archivePath(key),
                              state |-> "pending", err |-> NoError] >>
              /\ requests' = << PlatformConfig(key).url >>
              /\ pc' = "awaitResponse"
              /\ UNCHANGED <<exitCode, stderr>>
         ELSE /\ SetupFailed(MkdirFailure)
              /\ UNCHANGED <<dirs, fsLog, calls, requests>>
    /\ UNCHANGED <<key, run, files, content, installed, received, redirects,
                   response, totalBytes, downloadedBytes, stdout, atStart,
                   extVars, skipped>>

----------------------------------------------------------------------------
(* download(url, dest) *)

\* the download() call whose request is in flight: the innermost one
Innermost == calls[Len(calls)]

\* resolve() / reject(error) of the innermost promise
Settle(state, error) ==
    /\ calls' = [calls EXCEPT ![Len(calls)] = [@ EXCEPT !.state = state, !.err = error]]
    /\ pc' = "settling"

\* faulty variant: the follow-up request goes to the URL that redirected
Redirect_SameUrl(location) ==
    /\ calls' = Append(calls, [url |-> Innermost.url, dest |-> Innermost.dest,
                               state |-> "pending", err |-> NoError])
    /\ requests' = Append(requests, Innermost.url)
    /\ pc' = "awaitResponse"

\* download(response.headers.location, dest).then(resolve).catch(reject); return
Redirect(location) ==
    /\ calls' = Append(calls, [url |-> location, dest |-> Innermost.dest,
                               state |-> "pending", err |-> NoError])
    /\ requests' = Append(requests, location)
    /\ pc' = "awaitResponse"

\* the headers a response of this status carries
LocationsOf(statusCode) ==
    IF statusCode \in RedirectStatuses THEN Locations ELSE {<<>>}
ContentLengthsOf(statusCode) ==
    IF statusCode = 200 THEN ContentLengths ELSE {NoHeader}

\* the https.get callback: (response) => { ... }
Response ==
    /\ pc = "awaitResponse"
    /\ \E statusCode \in Statuses :
       \E location \in LocationsOf(statusCode) :
       \E contentLength \in ContentLengthsOf(statusCode) :
       \E opened \in BOOLEAN :   \* does the write stream open (200 only)
         /\ response' = [statusCode |-> statusCode, location |-> location,
                         contentLength |-> contentLength]
         /\ received' = received + 1
         /\ redirects' = IF statusCode \in RedirectStatuses
                          THEN redirects + 1 ELSE redirects
         /\ IF statusCode = 302 \/ statusCode = 301
            THEN /\ redirects < MaxRedirects
                 /\ opened
                 /\ Redirect(location)
                 /\ UNCHANGED <<files, content, fsLog, totalBytes, downloadedBytes>>
            ELSE IF statusCode # 200
            THEN /\ opened
                 /\ Settle("rejected", StatusError(statusCode))
                 /\ UNCHANGED <<requests, files, content, fsLog, totalBytes,
                                downloadedBytes>>
            ELSE \* fs.createWriteStream(dest) creates or truncates the file,
                 \* or fails to open it and the pipeline rejects
                 /\ totalBytes' = parseInt(contentLength)
                 /\ downloadedBytes' = 0
                 /\ IF opened
                    THEN /\ files' = files \cup {Innermost.dest}
                         /\ content' = "empty"
                         /\ fsLog' = Append(fsLog, "createWriteStream")
                         /\ pc' = "streaming"
                         /\ UNCHANGED calls
                    ELSE /\ Settle("rejected", StreamFailure)
                         /\ UNCHANGED <<files, content, fsLog>>
                 /\ UNCHANGED requests
    /\ UNCHANGED <<key, run, exitCode, dirs, installed, stdout, stderr, atStart,
                   extVars, skipped>>

\* .on('error', reject): the request fails, or https.get itself throws inside
\* the promise executor (an unusable URL); either way the promise rejects
RequestError ==
    /\ pc = "awaitResponse"
    /\ Settle("rejected", RequestFailure)
    /\ UNCHANGED <<key, run, exitCode, fsVars, requests, received, redirects, response,
                   totalBytes, downloadedBytes, stdout, stderr, fsLog, atStart, extVars,
                   skipped>>

\* response.on('data', (chunk) => { ... }), while the pipeline writes the chunk
DataChunk ==
    /\ pc = "streaming"
    /\ \E length \in 1..MaxBytes :
         /\ downloadedBytes + length <= MaxBytes
         /\ ~totalBytes.nan => downloadedBytes + length <= totalBytes.value
         /\ downloadedBytes' = downloadedBytes + length
         /\ stdout' = Append(stdout,
                        [Line("Downloading") EXCEPT
                           !.nan = percent(downloadedBytes', totalBytes).nan,
                           !.tenths = percent(downloadedBytes', totalBytes).tenths])
         /\ content' = "partial"
    /\ UNCHANGED <<key, run, pc, exitCode, dirs, files, installed, calls,
                   requests, received, redirects, response, totalBytes, stderr, fsLog, atStart,
                   extVars, skipped>>

\* streamPipeline(response, fileStream).then(() => { ...; resolve() })
StreamEnd ==
    /\ pc = "streaming"
    /\ ~totalBytes.nan => downloadedBytes = totalBytes.value
    /\ content' = "complete"
    /\ stdout' = Append(stdout, Line("Download completed!"))
    /\ Settle("resolved", NoError)
    /\ UNCHANGED <<key, run, exitCode, dirs, files, installed, requests,
                   received, redirects, response, totalBytes, downloadedBytes, stderr,
                   fsLog, atStart, extVars, skipped>>

\* streamPipeline(...).catch(reject): the body or the file write fails; what
\* was written stays in the file
StreamError ==
    /\ pc = "streaming"
    /\ Settle("rejected", StreamFailure)
    /\ UNCHANGED <<key, run, exitCode, fsVars, requests, received, redirects, response,
                   totalBytes, downloadedBytes, stdout, stderr, fsLog, atStart, extVars,
                   skipped>>

\* faulty variant: .then(resolve) without .catch(reject)
Outcome_ThenOnly(inner) ==
    IF inner.state = "resolved" THEN [state |-> "resolved", err |-> NoError]
    ELSE [state |-> "pending", err |-> NoError]

\* .then(resolve).catch(reject): the enclosing download() takes the outcome
\* of the one it started
Outcome(inner) == [state |-> inner.state, err |-> inner.err]

Propagate ==
    /\ pc = "settling"
    /\ \E i \in 1..(Len(calls) - 1) :
         /\ calls[i].state = "pending"
         /\ calls[i + 1].state # "pending"
         /\ calls' = [calls EXCEPT ![i] = [@ EXCEPT !.state = Outcome(calls[i + 1]).state,
                                                    !.err = Outcome(calls[i + 1]).err]]
    /\ UNCHANGED <<key, run, pc, exitCode, fsVars, requests, received, redirects, response,
                   totalBytes, downloadedBytes, stdout, stderr,
                   fsLog, atStart, extVars, skipped>>

----------------------------------------------------------------------------
(* downloadAndSetup after `await download(url, archivePath)` *)

\* faulty variant: the archive is removed although the extraction threw
ExtractThrows_Unlinks(error) ==
    /\ SetupFailed(error)
    /\ failedExtract' = TRUE
    /\ files' = files \ {archivePath(key)}
    /\ content' = "none"
    /\ UNCHANGED <<extractOk, everExtractOk>>

\* an extract function throws: the error reaches the top-level catch and the
\* unlink below the dispatch is never reached
ExtractThrows(error) ==
    /\ SetupFailed(error)
    /\ failedExtract' = TRUE
    /\ UNCHANGED <<files, content, extractOk, everExtractOk>>

\* an extract function returns: 'Extraction completed!', then
\* await fs.promises.unlink(archivePath) is called
ExtractReturns ==
    /\ installed' = "full"
    /\ stdout' = Append(stdout, Line("Extraction completed!"))
    /\ extractOk' = TRUE
    /\ everExtractOk' = TRUE
    /\ pc' = "unlink"
    /\ UNCHANGED <<exitCode, stderr, files, content, failedExtract>>

\* the outermost download() promise has settled: the catch of main, or the
\* dispatch on type and the entry of extractTarGz / extractZip up to its
\* await fs.promises.mkdir(destDir, { recursive: true })
AfterDownload ==
    /\ pc = "settling"
    /\ calls[1].state # "pending"
    /\ LET type == PlatformConfig(key).type IN
       IF calls[1].state = "rejected"
       THEN /\ SetupFailed(calls[1].err)
            /\ UNCHANGED <<stdout, extractor>>
       ELSE IF type = "tar.gz"
       THEN /\ extractor' = "extractTarGz"
            /\ stdout' = Append(stdout, Line("Extracting tar.gz to"))
            /\ pc' = "extractMkdir"
            /\ UNCHANGED <<exitCode, stderr>>
       ELSE IF type = "zip"
       THEN /\ extractor' = "extractZip"
            /\ stdout' = Append(stdout, Line("Extracting zip to"))
            /\ pc' = "extractMkdir"
            /\ UNCHANGED <<exitCode, stderr>>
       ELSE /\ SetupFailed(ArchiveTypeError)
            /\ UNCHANGED <<stdout, extractor>>
    /\ UNCHANGED <<key, run, fsVars, netVars, fsLog, atStart, extractOk, everExtractOk,
                   failedExtract, skipped>>

\* the mkdir of destDir settles.  extractTarGz then awaits tar.extract;
\* extractZip runs new AdmZip(zipPath) and zip.extractAllTo(destDir, true)
\* synchronously, which may throw after writing some of the entries
ExtractMkdir ==
    /\ pc = "extractMkdir"
    /\ \E ok \in BOOLEAN :
       \E zipOk \in BOOLEAN :
       \E left \in {installed, "partial"} :
         IF ~ok
         THEN /\ zipOk /\ left = installed
              /\ ExtractThrows(MkdirFailure)
              /\ UNCHANGED <<dirs, installed, fsLog, stdout>>
         ELSE /\ dirs' = dirs \cup Ancestors(pythonDir(key))
              /\ fsLog' = Append(fsLog, "mkdir pythonDir")
              /\ IF extractor = "extractTarGz"
                 THEN /\ zipOk /\ left = installed
                      /\ pc' = "tarExtract"
                      /\ UNCHANGED <<exitCode, stderr, stdout, files, content,
                                     installed, extVars>>
                 ELSE IF zipOk
                 THEN /\ left = installed
                      /\ ExtractReturns
                 ELSE /\ installed' = left
                      /\ ExtractThrows(ExtractFailure)
                      /\ UNCHANGED stdout
    /\ UNCHANGED <<key, run, netVars, atStart, extractor, skipped>>

\* await tar.extract({ file: tarPath, cwd: destDir, strip: 1 }) settles; a
\* failure may come after some of the entries were written
TarExtract ==
    /\ pc = "tarExtract"
    /\ \E ok \in BOOLEAN :
       \E left \in {installed, "partial"} :
         IF ok
         THEN /\ left = installed
              /\ ExtractReturns
         ELSE /\ installed' = left
              /\ ExtractThrows(ExtractFailure)
              /\ UNCHANGED stdout
    /\ UNCHANGED <<key, run, dirs, netVars, fsLog, atStart, extractor, skipped>>

\* await fs.promises.unlink(archivePath) settles; on success the function
\* returns and the process ends with code 0
Unlink ==
    /\ pc = "unlink"
    /\ \E ok \in BOOLEAN :
         IF ok
         THEN /\ files' = files \ {archivePath(key)}
              /\ content' = "none"
              /\ fsLog' = Append(fsLog, "unlink archivePath")
              /\ stdout' = stdout \o << Line("Cleaned up"), Line("Python setup completed at") >>
              /\ Exit(0)
              /\ UNCHANGED stderr
         ELSE /\ SetupFailed(UnlinkFailure)
              /\ UNCHANGED <<files, content, fsLog, stdout>>
    /\ UNCHANGED <<key, run, dirs, installed, netVars, atStart, extVars, skipped>>

----------------------------------------------------------------------------
(* The script is started again for the same platform; the filesystem is what
   the earlier runs left *)

NewRun ==
    /\ pc = "exited"
    /\ run < MaxRuns
    /\ run' = run + 1
    /\ pc' = "main"
    /\ exitCode' = Running
    /\ calls' = <<>>
    /\ requests' = <<>>
    /\ received' = 0
    /\ redirects' = 0
    /\ response' = NoResponse
    /\ totalBytes' = NaN
    /\ downloadedBytes' = 0
    /\ stdout' = <<>>
    /\ stderr' = <<>>
    /\ fsLog' = <<>>
    /\ atStart' = Snapshot(dirs, files, content, installed)
    /\ extractor' = "none"
    /\ extractOk' = FALSE
    /\ skipped' = FALSE
    /\ UNCHANGED <<key, fsVars, everExtractOk, failedExtract>>

----------------------------------------------------------------------------

\* the steps of one run
RunStep ==
    \/ Main
    \/ MkdirResources
    \/ Response
    \/ RequestError
    \/ DataChunk
    \/ StreamEnd
    \/ StreamError
    \/ Propagate
    \/ AfterDownload
    \/ ExtractMkdir
    \/ TarExtract
    \/ Unlink

Next == RunStep \/ NewRun

Spec == Init /\ [][Next]_vars

\* Every pending callback of a run is eventually called: each request gets a
\* response or an error, each filesystem call settles, each stream ends or
\* fails.
\* One run, from the first start of the script to its exit.
FairSpec == Init /\ [][RunStep]_vars /\ WF_vars(RunStep)

----------------------------------------------------------------------------
(* Properties *)

Exited == pc = "exited"
Logged(log, tag) == \E i \in 1..Len(log) : log[i].tag = tag
FsUntouched ==
    /\ fsLog = <<>>
    /\ Snapshot(dirs, files, content, installed) = atStart

\* C1: a run for a key with no entry in the platform table prints the list of
\* supported keys and exits with code 1, having issued no request and
\* touched nothing on disk.
C1_UnsupportedKeyListsSupported ==
    (Exited /\ key \notin OwnKeys) =>
        /\ \E i \in 1..Len(stderr) :
              stderr[i].tag = "Supported platforms" /\ stderr[i].keys = PlatformKeys
        /\ exitCode = 1
        /\ requests = <<>>
        /\ FsUntouched

\* C2: a run for a supported key that finds pythonDir present ends at once
\* with code 0: no request, no change to any file or directory.
C2_SkipIfPresent ==
    [][(pc = "main" /\ key \in OwnKeys /\ existsSync(pythonDir(key))) =>
         /\ pc' = "exited"
         /\ exitCode' = 0
         /\ requests' = <<>>
         /\ fsLog' = <<>>
         /\ UNCHANGED fsVars]_vars

C2_Witness ==
    /\ Exited /\ key \in OwnKeys /\ run > 1
    /\ pythonDir(key) \in atStart.dirs
    /\ skipped /\ exitCode = 0

\* C3: the archive file disappears only in a run whose extract function has
\* returned without error, and a run whose extract function threw ends with
\* the archive file still on disk.
C3_ArchiveKeptUnlessExtracted ==
    [][/\ (key \in OwnKeys /\ archivePath(key) \in files /\ archivePath(key) \notin files')
            => extractOk
       /\ (pc' = "exited" /\ extractor' # "none" /\ ~extractOk')
            => archivePath(key) \in files']_vars

C3_Witness ==
    /\ Exited /\ extractor # "none" /\ ~extractOk
    /\ Logged(stderr, "Setup failed")
    /\ archivePath(key) \in files /\ content = "complete"

\* every step of the pipeline was done without error
Completed ==
    /\ fsLog = <<"mkdir resourcesDir", "createWriteStream", "mkdir pythonDir",
                 "unlink archivePath">>
    /\ calls # <<>> /\ calls[1].state = "resolved"
    /\ extractOk

\* C4: the exit code is 0 exactly when the run skipped or completed every
\* step; an unsupported key or an error in any step, the unlink included,
\* gives 1.
C4_ExitCode ==
    Exited =>
        /\ exitCode \in {0, 1}
        /\ exitCode = 0 <=> (skipped \/ Completed)
        /\ key \notin OwnKeys => exitCode = 1
        /\ Logged(stderr, "Setup failed") => exitCode = 1

C4_Witness ==
    /\ Exited /\ exitCode = 1 /\ extractOk
    /\ stderr[Len(stderr)].err = UnlinkFailure

\* C5: when the last response has a status other than 200, 301, 302, the
\* download rejects with an error that carries the status, this run neither
\* creates nor writes the archive file, no extract function is entered, and
\* the run exits with code 1.
C5_BadStatusFails ==
    (received > 0 /\ response.statusCode \notin {200, 301, 302}) =>
        /\ pc \in {"settling", "exited"}
        /\ Innermost.state = "rejected"
        /\ Innermost.err.kind = "Download failed with status"
        /\ Innermost.err.code = response.statusCode
        /\ \A i \in 1..Len(fsLog) : fsLog[i] = "mkdir resourcesDir"
        /\ files = atStart.files /\ content = atStart.content
        /\ extractor = "none"
        /\ Exited =>
             /\ exitCode = 1
             /\ calls[1].state = "rejected"
             /\ calls[1].err.code = response.statusCode
             /\ stderr[Len(stderr)].err.code = response.statusCode

C5_Witness ==
    /\ Exited /\ exitCode = 1
    /\ redirects > 0
    /\ response.statusCode = 404
    /\ stderr[Len(stderr)].err = StatusError(404)

C7_ProgressOnlyIfTotalKnown ==
    Logged(stdout, "Downloading") => response.contentLength.present

\* C8: every table entry has a URL and a type among tar.gz and zip; a run
\* enters extractTarGz exactly for tar.gz and extractZip exactly for zip,
\* and never raises 'Unsupported archive type'.
C8_TypeDispatch ==
    /\ \A k \in OwnKeys :
          /\ Len(PLATFORMS[k].url) > 0
          /\ PLATFORMS[k].type \in {"tar.gz", "zip"}
    /\ extractor # "none" =>
          /\ extractor = "extractTarGz" <=> PLATFORMS[key].type = "tar.gz"
          /\ extractor = "extractZip" <=> PLATFORMS[key].type = "zip"
    /\ (Exited /\ calls # <<>> /\ calls[1].state = "resolved") => extractor # "none"
    /\ \A i \in 1..Len(stderr) : stderr[i].err.kind # "Unsupported archive type"

C8_Witness ==
    /\ Exited /\ key = "win32-arm64"
    /\ extractor = "extractZip" /\ extractOk

C10_SkipOnlyAfterExtraction ==
    (Exited /\ skipped /\ exitCode = 0) => everExtractOk

====
